---- MODULE Spec2Model ----
(***************************************************************************)
(* PyTor: the peer session of src/peer_client.py as driven by              *)
(* src/PyTinyTorrent/main.py.  One specification, Spec, runs one peer      *)
(* session: the handshake, then the message loop with its handlers, the    *)
(* block scheduler (request_piece), piece assembly, SHA-1 verification and *)
(* the write of a verified piece.  BitfieldSpec applies process_bitfield   *)
(* as a pure function to payloads over larger torrents; SessionsSpec runs  *)
(* peer sessions one after the other; TrackerSpec is one call of           *)
(* get_peers_from_tracker (src/tracker_client.py); BencodeSpec applies     *)
(* bdecode and bencode_value (src/PyTinyTorrent/bencoding.py); TorrentSpec *)
(* parses a torrent file (src/torrent_parser.py) and extracts its piece    *)
(* hashes.                                                                 *)
(*                                                                         *)
(* Byte strings of block data are sequences of symbols; one symbol stands  *)
(* for a run of block_size bytes, so a block of k symbols is k*block_size  *)
(* bytes long.  Message headers are sequences of bytes (0..255).           *)
(***************************************************************************)
EXTENDS Integers, Sequences, FiniteSets, TLC

VARIABLES
    pc,                 \* "handshake" | "loop" | "done" | "failed": where main.py is
    sock,               \* "none" | "open" | "closed": the peer socket
    received_handshake, \* what recv(68) returned: [len, info_hash], or NoHandshake
    frames_read,        \* the frames (messages, keep-alives) the loop has processed
    end_reason,         \* why the message loop ended ("none" while it has not)
    total_pieces,       \* len(pieces) // 20 of the torrent (main.py:23)
    torrent_piece_length, \* the torrent's declared 'piece length' (never read by the session)
    peer_choking,       \* module-level state, peer_client.py:9
    am_interested,      \* peer_client.py:10
    available_pieces,   \* peer_client.py:11
    downloaded_pieces,  \* peer_client.py:12: piece index -> download record
    sent,               \* the messages sendall() put on the wire after the handshake
    file_writes,        \* the seek/write pairs done on "downloaded_file"
    last_frame,         \* the frame the loop body handled last, or NoFrame
    last_verify,        \* the verify_piece call made by the last handler, or NoVerify
    cooperative,        \* history: the frames so far are those of the scripted peer
    session,            \* SessionsSpec: which call of process_peer_messages this is (0 elsewhere)
    bitfield_payload,   \* BitfieldSpec only: the payload last given to process_bitfield
    tracker_pc,         \* TrackerSpec: where get_peers_from_tracker is
    scheme,             \* urlparse(announce_url).scheme (and whether a udp URL names host and port)
    transaction_id,     \* the transaction id of the UDP request in flight
    udp_sent,           \* the datagrams sendto() has sent
    tracker_response,   \* the response received last, or NoResponse
    tracker_result,     \* what get_peers_from_tracker returned or raised, or NoResult
    bencode_pc,         \* BencodeSpec: "start" | "decoded" | "encoded"
    bencoded_bytes,     \* the byte string given to bdecode
    bdecoded,           \* what bdecode gave: a value, or the exception raised
    encoded,            \* bencode_value of the decoded value, or NoBytes
    parser_pc,          \* TorrentSpec: "start" | "parsed" | "hashes" | "failed"
    torrent_data_bytes, \* the contents of the .torrent file
    parse_result,       \* what parse_torrent_file returned or raised
    extracted_hashes    \* main.py:27-30: the piece_hashes list, or NoHashes

vars == <<pc, sock, received_handshake, frames_read, end_reason, total_pieces,
          torrent_piece_length, peer_choking, am_interested, available_pieces,
          downloaded_pieces, sent, file_writes, last_frame, last_verify,
          cooperative, session, bitfield_payload,
          tracker_pc, scheme, transaction_id, udp_sent, tracker_response, tracker_result,
          bencode_pc, bencoded_bytes, bdecoded, encoded,
          parser_pc, torrent_data_bytes, parse_result, extracted_hashes>>

trackerVars == <<tracker_pc, scheme, transaction_id, udp_sent, tracker_response,
                 tracker_result>>

\* The variables of the specifications that run no peer session.
bencodeVars == <<bencode_pc, bencoded_bytes, bdecoded, encoded>>

parserVars == <<parser_pc, torrent_data_bytes, parse_result, extracted_hashes>>

otherVars == <<trackerVars, bencodeVars, parserVars>>

\* The variables a peer session never touches.
auxVars == <<bitfield_payload, session, otherVars>>

NoResponse == [kind |-> "none"]
NoResult == [kind |-> "none"]

\* get_peers_from_tracker is not running.
TrackerIdle ==
    /\ tracker_pc = "idle"
    /\ scheme = "none"
    /\ transaction_id = 0
    /\ udp_sent = <<>>
    /\ tracker_response = NoResponse
    /\ tracker_result = NoResult

NoBytes == [kind |-> "none"]
NoHashes == [kind |-> "none"]

\* bdecode and bencode_value are not running on their own.
BencodeIdle ==
    /\ bencode_pc = "idle"
    /\ bencoded_bytes = <<>>
    /\ bdecoded = NoResult
    /\ encoded = NoBytes

\* main.py is past the parsing of the torrent.
ParserIdle ==
    /\ parser_pc = "idle"
    /\ torrent_data_bytes = <<>>
    /\ parse_result = NoResult
    /\ extracted_hashes = NoHashes

OthersIdle == TrackerIdle /\ BencodeIdle /\ ParserIdle

\* What a step outside the message loop leaves alone besides.
peerVars == <<cooperative>>

\* The torrent, fixed for a run.
torrentVars == <<total_pieces, torrent_piece_length>>

(***************************************************************************)
(* Bounds of the model.                                                    *)
(***************************************************************************)
\* Blocks in a download record's piece_length.  The source hard-codes
\* piece_length = 262144 = 16 blocks of 16384; the model keeps the block size
\* and scales the number of blocks per piece.
BlocksPerPiece == 2

\* total_pieces of the session's torrent.
MaxPieces == 2

\* The most frames (messages and keep-alives) the peer sends in a session.
MaxFrames == 4

\* The largest total_pieces BitfieldSpec draws.
MaxBitfieldPieces == 10

\* The peer sessions a process runs one after the other in SessionsSpec.
MaxSessions == 2

\* The most frames the sessions of SessionsSpec read, all together.
MaxSessionsFrames == 3

(***************************************************************************)
(* Program constants.                                                      *)
(***************************************************************************)
block_size == 16384
HANDSHAKE_LEN == 68
DEMO_PIECE_LIMIT == 3

MESSAGE_CHOKE == 0
MESSAGE_UNCHOKE == 1
MESSAGE_INTERESTED == 2
MESSAGE_NOT_INTERESTED == 3
MESSAGE_HAVE == 4
MESSAGE_BITFIELD == 5
MESSAGE_REQUEST == 6
MESSAGE_PIECE == 7
MESSAGE_CANCEL == 8

\* 'piece_length': 262144 of every download record, in the model's scale.
piece_length == BlocksPerPiece * block_size

(***************************************************************************)
(* Helpers: sets, functions, byte strings.                                 *)
(***************************************************************************)
Min(S) == CHOOSE x \in S : \A y \in S : x <= y

\* dict[k] = v
Put(f, k, v) == [x \in (DOMAIN f) \cup {k} |-> IF x = k THEN v ELSE f[x]]

\* len(block_data) in bytes: one symbol is block_size bytes.
ByteLen(data) == Len(data) * block_size

\* struct.unpack(">I", b)[0] of a 4-byte string.
UnpackU32(b) == b[1] * 16777216 + b[2] * 65536 + b[3] * 256 + b[4]

\* struct.pack(">I", n)
PackU32(n) == << (n \div 16777216) % 256, (n \div 65536) % 256, (n \div 256) % 256, n % 256 >>

\* hashlib.sha1(data).digest(), as a collision-free digest of the model's
\* byte strings (symbols are 1 and 2: the digest is the string read in base 3).
RECURSIVE Sha1(_)
Sha1(data) ==
    IF data = <<>> THEN 1
    ELSE Sha1(SubSeq(data, 1, Len(data) - 1)) * 3 + data[Len(data)]

(***************************************************************************)
(* The torrent: its pieces and their hashes (main.py:20-30).               *)
(***************************************************************************)
\* The 'piece length' values a torrent declares: one block, or the length
\* the session hard-codes.
TorrentPieceLengths == {block_size, piece_length}

\* The content of piece i of a torrent whose pieces are tpl bytes long.
PieceData(i, tpl) == [k \in 1..(tpl \div block_size) |-> ((i + k) % 2) + 1]

\* piece_hashes: index -> the 20-byte slice of the 'pieces' field.
PieceHashes(total, tpl) == [i \in 0..(total - 1) |-> Sha1(PieceData(i, tpl))]

piece_hashes == PieceHashes(total_pieces, torrent_piece_length)

(***************************************************************************)
(* process_bitfield (peer_client.py:442-457).                              *)
(***************************************************************************)
\* a & b on non-negative integers.
RECURSIVE BitAnd(_, _)
BitAnd(a, b) ==
    IF a = 0 \/ b = 0 THEN 0
    ELSE (a % 2) * (b % 2) + 2 * BitAnd(a \div 2, b \div 2)

\* a >> k
ShiftRight(a, k) == a \div (2 ^ k)

\* process_bitfield reading each byte least significant bit first (1 << bit_index).
process_bitfield_lsb_first(payload, available, total) ==
    available \cup
    { q[1] * 8 + q[2] :
        q \in { r \in (0..(Len(payload) - 1)) \X (0..7) :
                  /\ r[1] * 8 + r[2] < total
                  /\ BitAnd(payload[r[1] + 1], 2 ^ r[2]) # 0 } }

\* The set available_pieces holds after process_bitfield(payload, available, total).
process_bitfield(payload, available, total) ==
    available \cup
    { q[1] * 8 + q[2] :
        q \in { r \in (0..(Len(payload) - 1)) \X (0..7) :
                  /\ r[1] * 8 + r[2] < total
                  /\ BitAnd(payload[r[1] + 1], ShiftRight(128, r[2])) # 0 } }

(***************************************************************************)
(* Download records and the block scheduler (peer_client.py:233-281).      *)
(***************************************************************************)
\* The record both request_piece and process_piece_message create.
NewRecord ==
    [ blocks |-> <<>>, total_blocks |-> 0, piece_length |-> piece_length,
      is_complete |-> FALSE, requested_blocks |-> {} ]

NoRequest == [kind |-> "none"]

RequestMsg(index, begin, length) ==
    [kind |-> "request", index |-> index, begin |-> begin, length |-> length]

InterestedMsg == [kind |-> "interested"]

\* range(0, n, block_size) as a set.
BlockOffsets(n) == { k * block_size : k \in 0..((n + block_size - 1) \div block_size - 1) }

\* pieces_to_request[0]: CPython iterates a set of small integers in ascending
\* order (an int hashes to itself; indices below the table size do not collide).
FirstOf(S) == Min(S)

\* request_piece asking for the highest free offset instead of the lowest.
request_piece_highest_offset(dp, available) ==
    LET pieces_to_request == { p \in available : p \notin DOMAIN dp } IN
    IF pieces_to_request = {}
    THEN [request |-> NoRequest, created |-> dp, dp |-> dp]
    ELSE
      LET piece_index == FirstOf(pieces_to_request)
          dp1 == IF piece_index \notin DOMAIN dp THEN Put(dp, piece_index, NewRecord) ELSE dp
          piece_info == dp1[piece_index]
          free == { o \in BlockOffsets(piece_info.piece_length) :
                      /\ o \notin DOMAIN piece_info.blocks
                      /\ o \notin piece_info.requested_blocks }
      IN IF free = {}
         THEN [request |-> NoRequest, created |-> dp1, dp |-> dp1]
         ELSE LET current_offset == CHOOSE o \in free : \A p \in free : p <= o IN
              [ request |-> RequestMsg(piece_index, current_offset, block_size),
                created |-> dp1,
                dp |-> [dp1 EXCEPT ![piece_index].requested_blocks = @ \cup {current_offset}] ]

\* request_piece(sock, available_pieces).  The result holds the REQUEST it
\* sends (or NoRequest), downloaded_pieces when sendall is reached ("created":
\* the record exists, the offset is not yet marked) and when it returned.
request_piece(dp, available) ==
    LET pieces_to_request == { p \in available : p \notin DOMAIN dp } IN
    IF pieces_to_request = {}
    THEN [request |-> NoRequest, created |-> dp, dp |-> dp]
    ELSE
      LET piece_index == FirstOf(pieces_to_request)
          dp1 == IF piece_index \notin DOMAIN dp THEN Put(dp, piece_index, NewRecord) ELSE dp
          piece_info == dp1[piece_index]
          free == { o \in BlockOffsets(piece_info.piece_length) :
                      /\ o \notin DOMAIN piece_info.blocks
                      /\ o \notin piece_info.requested_blocks }
      IN IF free = {}
         THEN [request |-> NoRequest, created |-> dp1, dp |-> dp1]
         ELSE LET current_offset == Min(free) IN
              [ request |-> RequestMsg(piece_index, current_offset, block_size),
                created |-> dp1,
                dp |-> [dp1 EXCEPT ![piece_index].requested_blocks = @ \cup {current_offset}] ]

(***************************************************************************)
(* verify_piece, combine_piece_blocks, process_piece_message               *)
(* (peer_client.py:283-440).                                               *)
(***************************************************************************)
\* The blocks of the given offsets, concatenated in ascending offset order.
RECURSIVE ConcatBlocks(_, _)
ConcatBlocks(blocks, offsets) ==
    IF offsets = {} THEN <<>>
    ELSE LET o == Min(offsets) IN blocks[o] \o ConcatBlocks(blocks, offsets \ {o})

\* combine_piece_blocks(piece_index): [ok |-> FALSE] stands for None.
combine_piece_blocks(dp, piece_index) ==
    IF piece_index \notin DOMAIN dp THEN [ok |-> FALSE, data |-> <<>>]
    ELSE IF DOMAIN dp[piece_index].blocks = {} THEN [ok |-> FALSE, data |-> <<>>]
    ELSE [ok |-> TRUE,
          data |-> ConcatBlocks(dp[piece_index].blocks, DOMAIN dp[piece_index].blocks)]

\* verify_piece(piece_index, piece_data, piece_hashes)
verify_piece(piece_index, piece_data, hashes) ==
    IF piece_index >= Cardinality(DOMAIN hashes) THEN FALSE
    ELSE Sha1(piece_data) = hashes[piece_index]

NoVerify == [called |-> FALSE]

NoWrite == [done |-> FALSE]

\* if received_blocks == total_blocks, and then expected_offsets == actual_offsets
AllBlocksPresent(rec) ==
    /\ Cardinality(DOMAIN rec.blocks) = (rec.piece_length + block_size - 1) \div block_size
    /\ BlockOffsets(rec.piece_length) = DOMAIN rec.blocks

\* process_piece_message(payload, piece_hashes).  payload is [hdr, block]: the
\* first (up to) 8 bytes and the block bytes after them.  write_ok: whether
\* open("downloaded_file", "r+b") and the write succeed.  The result holds
\* downloaded_pieces, the verify_piece call made and the write done, if any.
process_piece_message(dp, payload, hashes, write_ok) ==
    IF Len(payload.hdr) < 8
    THEN [dp |-> dp, verify |-> NoVerify, write |-> NoWrite]
    ELSE
      LET piece_index == UnpackU32(SubSeq(payload.hdr, 1, 4))
          begin == UnpackU32(SubSeq(payload.hdr, 5, 8))
          block_data == payload.block
          dp1 == IF piece_index \notin DOMAIN dp THEN Put(dp, piece_index, NewRecord) ELSE dp
          rec1 == dp1[piece_index]
          rec2 == [rec1 EXCEPT
                     !.blocks = Put(@, begin, block_data),
                     !.requested_blocks = @ \ {begin},
                     !.total_blocks = (rec1.piece_length + block_size - 1) \div block_size]
          dp2 == [dp1 EXCEPT ![piece_index] = rec2]
      IN IF ~AllBlocksPresent(rec2)
         THEN [dp |-> dp2, verify |-> NoVerify, write |-> NoWrite]
         ELSE
           LET combined == combine_piece_blocks(dp2, piece_index)
               piece_data == combined.data
               ok == verify_piece(piece_index, piece_data, hashes)
               call == [called |-> TRUE, index |-> piece_index, blocks |-> rec2.blocks,
                        piece_length |-> rec2.piece_length, ok |-> ok]
           IN IF ~combined.ok
              THEN [dp |-> dp2, verify |-> NoVerify, write |-> NoWrite]
              ELSE IF ok
              THEN [ dp |-> [dp2 EXCEPT ![piece_index].is_complete = TRUE],
                     verify |-> call,
                     write |-> IF write_ok
                               THEN [done |-> TRUE, index |-> piece_index,
                                     offset |-> piece_index * rec2.piece_length,
                                     data |-> piece_data]
                               ELSE NoWrite ]
              ELSE [ dp |-> [dp2 EXCEPT ![piece_index] = NewRecord],
                     verify |-> call, write |-> NoWrite ]

(***************************************************************************)
(* What the peer may send.                                                 *)
(***************************************************************************)
\* SHA-1 of the bencoded info dictionary, and some other torrent's.
info_hash == "info_hash"
InfoHashes == {info_hash, "other_hash"}

\* How many bytes recv(68) returns.
HandshakeLens == {0, HANDSHAKE_LEN - 1, HANDSHAKE_LEN}

NoHandshake == [len |-> -1, info_hash |-> "none"]

\* The block bytes of a PIECE message: a block of symbol 1 or 2, or no bytes.
Blocks == {<<>>, <<1>>, <<2>>}

\* Piece indices the peer names: those of the torrent and some beyond.
PeerIndices == 0..MaxPieces

\* Offsets the peer names: the block offsets of a record and the one after.
PeerOffsets == { k * block_size : k \in 0..BlocksPerPiece }

\* HAVE payloads: a 4-byte index, or 3 bytes.
HavePayloads == { PackU32(i) : i \in PeerIndices } \cup { <<0, 0, 1>> }

\* BITFIELD payloads.
BitfieldPayloads == { <<>>, <<128>>, <<64>>, <<32>>, <<160, 0>> }

\* PIECE payloads: index, begin and block bytes, or fewer than 8 bytes.
PiecePayloads ==
    { [hdr |-> PackU32(i) \o PackU32(o), block |-> b] :
        i \in PeerIndices, o \in PeerOffsets, b \in Blocks }
    \cup { [hdr |-> <<0, 0, 0, 0, 0, 0, 0>>, block |-> <<>>] }

\* Message ids with no handler effect: interested, not interested, request,
\* cancel, and an unknown id.
OtherIds == {MESSAGE_INTERESTED, MESSAGE_NOT_INTERESTED, MESSAGE_REQUEST, MESSAGE_CANCEL, 9}

\* What the loop body handled: nothing yet, a keep-alive (message_length == 0),
\* or a message with its id and payload.
NoFrame == [kind |-> "none"]
KeepAlive == [kind |-> "keepalive"]
Message(message_id, payload) == [kind |-> "message", id |-> message_id, payload |-> payload]

(***************************************************************************)
(* Initial state: main.py has parsed the torrent and got a peer.           *)
(***************************************************************************)
SessionInit ==
    /\ pc = "handshake"
    /\ sock = "none"
    /\ received_handshake = NoHandshake
    /\ frames_read = 0
    /\ end_reason = "none"
    /\ peer_choking = TRUE
    /\ am_interested = FALSE
    /\ available_pieces = {}
    /\ downloaded_pieces = <<>>
    /\ sent = <<>>
    /\ file_writes = {}
    /\ last_frame = NoFrame
    /\ last_verify = NoVerify
    /\ cooperative = TRUE

Init ==
    /\ SessionInit
    /\ total_pieces = MaxPieces
    /\ torrent_piece_length \in TorrentPieceLengths
    /\ bitfield_payload = <<>>
    /\ session = 0
    /\ OthersIdle

(***************************************************************************)
(* perform_peer_handshake (peer_client.py:14-90) and main.py:41-49.        *)
(***************************************************************************)
\* The handshake check without the comparison of the info-hash.
HandshakeAccepted_no_hash_check(hs) == ~(hs.len < HANDSHAKE_LEN)

\* The checks on the received handshake: 68 bytes and our info-hash.
HandshakeAccepted(hs) ==
    /\ ~(hs.len < HANDSHAKE_LEN)
    /\ ~(hs.info_hash # info_hash)

\* An invalid address, a refused or timed-out connect, or an error in
\* sendall/recv: None is returned and nothing was received.  The socket was
\* never created, or is left as it is.
HandshakeError ==
    /\ pc = "handshake"
    /\ pc' = "failed"
    /\ sock' \in {"none", "open"}
    /\ UNCHANGED <<received_handshake, frames_read, end_reason, torrentVars, peer_choking,
                   am_interested, available_pieces, downloaded_pieces, sent, file_writes,
                   last_frame, last_verify, peerVars, auxVars>>

\* The connect succeeded, the handshake was sent and recv(68) returned.
HandshakeReply(len, ih) ==
    /\ pc = "handshake"
    /\ received_handshake' = [len |-> len, info_hash |-> ih]
    /\ IF HandshakeAccepted(received_handshake')
       THEN pc' = "loop" /\ sock' = "open"
       ELSE pc' = "failed" /\ sock' = "closed"
    /\ UNCHANGED <<frames_read, end_reason, torrentVars, peer_choking, am_interested,
                   available_pieces, downloaded_pieces, sent, file_writes, last_frame,
                   last_verify, peerVars, auxVars>>

(***************************************************************************)
(* process_peer_messages (peer_client.py:92-231): the ways the loop ends   *)
(* at recv, and the keep-alive.  main.py:46 closes the socket afterwards.  *)
(***************************************************************************)
LoopExit(reason) ==
    /\ pc = "loop"
    /\ pc' = "done"
    /\ end_reason' = reason
    /\ sock' = "closed"
    /\ last_frame' = NoFrame
    /\ last_verify' = NoVerify
    /\ cooperative' = FALSE
    /\ UNCHANGED <<frames_read, received_handshake, torrentVars, peer_choking, am_interested,
                   available_pieces, downloaded_pieces, sent, file_writes, auxVars>>

\* recv(4) returned no bytes.
RecvEOF == LoopExit("eof")

\* recv(message_length) returned no bytes: the peer closed after a length prefix.
RecvIncomplete == LoopExit("eof")

\* socket.timeout in recv.
RecvTimeout == LoopExit("timeout")

\* Any other exception in recv or struct.unpack (the socket was closed from
\* outside, a length prefix of fewer than 4 bytes).
RecvError == LoopExit("error")

\* The loop is at recv(4) and the peer has a frame to send.
CanRead ==
    /\ pc = "loop"
    /\ frames_read < (IF session = 0 THEN MaxFrames ELSE MaxSessionsFrames)

\* message_length == 0: continue, without the check at the end of the loop body.
RecvKeepAlive ==
    /\ CanRead
    /\ frames_read' = frames_read + 1
    /\ last_frame' = KeepAlive
    /\ last_verify' = NoVerify
    /\ cooperative' = FALSE
    /\ UNCHANGED <<pc, sock, end_reason, received_handshake, torrentVars, peer_choking,
                   am_interested, available_pieces, downloaded_pieces, sent, file_writes,
                   auxVars>>

(***************************************************************************)
(* The message handlers.  Each is the whole loop body for one message: the *)
(* handler, what it sends, and the check of len(downloaded_pieces) at the  *)
(* end.  A sendall that raises ends the loop in the except clause with the *)
(* state as it was at the call.                                            *)
(***************************************************************************)
\* if len(downloaded_pieces) >= 3: break
TargetReached(dp) == Cardinality(DOMAIN dp) >= DEMO_PIECE_LIMIT

\* The block of piece i at offset o in a torrent of tpl-byte pieces.
PieceBlock(i, o, tpl) == << PieceData(i, tpl)[o \div block_size + 1] >>

\* The frame is the scripted peer's next one: a bitfield with bit 0 alone,
\* then unchoke, then the right bytes for a block of piece 0 that a request
\* sent to it is asking for.
ScriptedFrame(frame) ==
    IF frames_read = 0 THEN frame.id = MESSAGE_BITFIELD /\ frame.payload = <<128>>
    ELSE IF frames_read = 1 THEN frame.id = MESSAGE_UNCHOKE
    ELSE /\ frame.id = MESSAGE_PIECE
         /\ Len(frame.payload.hdr) = 8
         /\ LET i == UnpackU32(SubSeq(frame.payload.hdr, 1, 4))
                o == UnpackU32(SubSeq(frame.payload.hdr, 5, 8))
            IN /\ i = 0
               /\ 0 \in DOMAIN downloaded_pieces
               /\ o \in downloaded_pieces[0].requested_blocks
               /\ o \in BlockOffsets(torrent_piece_length)
               /\ frame.payload.block = PieceBlock(0, o, torrent_piece_length)

\* The state after a loop body that ran to its end (raised = FALSE) or whose
\* sendall raised; out is the message sendall put on the wire, or NoRequest.
Handled(frame, choking, interested, available, dp, out, verify, writes, raised) ==
    /\ last_frame' = frame
    /\ cooperative' = (cooperative /\ ScriptedFrame(frame))
    /\ peer_choking' = choking
    /\ am_interested' = interested
    /\ available_pieces' = available
    /\ downloaded_pieces' = dp
    /\ sent' = IF out = NoRequest THEN sent ELSE Append(sent, out)
    /\ last_verify' = verify
    /\ file_writes' = writes
    /\ frames_read' = frames_read + 1
    /\ IF raised
       THEN pc' = "done" /\ end_reason' = "send_error" /\ sock' = "closed"
       ELSE IF TargetReached(dp)
       THEN pc' = "done" /\ end_reason' = "target" /\ sock' = "closed"
       ELSE UNCHANGED <<pc, end_reason, sock>>
    /\ UNCHANGED <<received_handshake, torrentVars, auxVars>>

\* MESSAGE_CHOKE
RecvChoke ==
    /\ CanRead
    /\ Handled(Message(MESSAGE_CHOKE, <<>>), TRUE, am_interested, available_pieces,
               downloaded_pieces, NoRequest, NoVerify, file_writes, FALSE)

\* The scheduler call of the unchoke and piece handlers on downloaded_pieces
\* dp: the request goes out, or sendall raises.
Schedule(frame, choking, dp, verify, writes) ==
    LET r == request_piece(dp, available_pieces) IN
    IF r.request = NoRequest
    THEN Handled(frame, choking, am_interested, available_pieces, r.dp, NoRequest,
                 verify, writes, FALSE)
    ELSE \E send_ok \in BOOLEAN :
           IF send_ok
           THEN Handled(frame, choking, am_interested, available_pieces, r.dp, r.request,
                        verify, writes, FALSE)
           ELSE Handled(frame, choking, am_interested, available_pieces, r.created, NoRequest,
                        verify, writes, TRUE)

\* MESSAGE_UNCHOKE
RecvUnchoke ==
    /\ CanRead
    /\ IF am_interested
       THEN Schedule(Message(MESSAGE_UNCHOKE, <<>>), FALSE, downloaded_pieces, NoVerify,
                     file_writes)
       ELSE Handled(Message(MESSAGE_UNCHOKE, <<>>), FALSE, am_interested, available_pieces,
                    downloaded_pieces, NoRequest, NoVerify, file_writes, FALSE)

\* am_interested = True without send_interested_message.
ExpressInterest_without_send(frame, available) ==
    Handled(frame, peer_choking, TRUE, available, downloaded_pieces, NoRequest,
            NoVerify, file_writes, FALSE)

\* send_interested_message, then am_interested = True; or sendall raises.
ExpressInterest(frame, available) ==
    \E send_ok \in BOOLEAN :
      IF send_ok
      THEN Handled(frame, peer_choking, TRUE, available, downloaded_pieces, InterestedMsg,
                   NoVerify, file_writes, FALSE)
      ELSE Handled(frame, peer_choking, am_interested, available, downloaded_pieces,
                   NoRequest, NoVerify, file_writes, TRUE)

\* The HAVE check without piece_index < total_pieces.
ValidHave_no_index_check(payload) == Len(payload) = 4

\* if len(payload) == 4 and piece_index < total_pieces
ValidHave(payload) ==
    /\ Len(payload) = 4
    /\ UnpackU32(payload) < total_pieces

\* MESSAGE_HAVE without "if not am_interested": interested goes out at every
\* valid HAVE.
RecvHave_resending_interest(payload) ==
    /\ CanRead
    /\ IF ValidHave(payload)
       THEN ExpressInterest(Message(MESSAGE_HAVE, payload),
                            available_pieces \cup {UnpackU32(payload)})
       ELSE Handled(Message(MESSAGE_HAVE, payload), peer_choking, am_interested,
                    available_pieces, downloaded_pieces, NoRequest, NoVerify, file_writes,
                    FALSE)

\* MESSAGE_HAVE
RecvHave(payload) ==
    /\ CanRead
    /\ IF ValidHave(payload)
       THEN LET available == available_pieces \cup {UnpackU32(payload)} IN
            IF ~am_interested
            THEN ExpressInterest(Message(MESSAGE_HAVE, payload), available)
            ELSE Handled(Message(MESSAGE_HAVE, payload), peer_choking, am_interested,
                         available, downloaded_pieces, NoRequest, NoVerify, file_writes, FALSE)
       ELSE Handled(Message(MESSAGE_HAVE, payload), peer_choking, am_interested,
                    available_pieces, downloaded_pieces, NoRequest, NoVerify, file_writes,
                    FALSE)

\* MESSAGE_BITFIELD
RecvBitfield(payload) ==
    /\ CanRead
    /\ LET available == process_bitfield(payload, available_pieces, total_pieces) IN
       IF available # {} /\ ~am_interested
       THEN ExpressInterest(Message(MESSAGE_BITFIELD, payload), available)
       ELSE Handled(Message(MESSAGE_BITFIELD, payload), peer_choking, am_interested,
                    available, downloaded_pieces, NoRequest, NoVerify, file_writes, FALSE)

\* The outcomes of the open and write of process_piece_message: both, when
\* the message makes it write; no write is tried otherwise.
WriteOutcomes(dp, payload, hashes) ==
    IF process_piece_message(dp, payload, hashes, TRUE).write = NoWrite
    THEN {FALSE} ELSE BOOLEAN

\* The condition of the piece handler without "not peer_choking".
MayRequestAfterPiece_ignoring_choke == am_interested

\* if not peer_choking and am_interested, after process_piece_message
MayRequestAfterPiece == ~peer_choking /\ am_interested

\* MESSAGE_PIECE
RecvPiece(payload) ==
    /\ CanRead
    /\ \E write_ok \in WriteOutcomes(downloaded_pieces, payload, piece_hashes) :
         LET r == process_piece_message(downloaded_pieces, payload, piece_hashes, write_ok)
             writes == IF r.write = NoWrite THEN file_writes
                       ELSE file_writes \cup {[index |-> r.write.index,
                                               offset |-> r.write.offset,
                                               data |-> r.write.data]}
         IN IF MayRequestAfterPiece
            THEN Schedule(Message(MESSAGE_PIECE, payload), peer_choking, r.dp, r.verify,
                          writes)
            ELSE Handled(Message(MESSAGE_PIECE, payload), peer_choking, am_interested,
                         available_pieces, r.dp, NoRequest, r.verify, writes, FALSE)

\* MESSAGE_INTERESTED, MESSAGE_NOT_INTERESTED, MESSAGE_REQUEST, MESSAGE_CANCEL
\* and unknown ids: a print.
RecvOther(message_id) ==
    /\ CanRead
    /\ message_id \in OtherIds
    /\ Handled(Message(message_id, <<>>), peer_choking, am_interested, available_pieces,
               downloaded_pieces, NoRequest, NoVerify, file_writes, FALSE)

Next ==
    \/ HandshakeError
    \/ \E len \in HandshakeLens, ih \in InfoHashes : HandshakeReply(len, ih)
    \/ RecvEOF
    \/ RecvIncomplete
    \/ RecvTimeout
    \/ RecvError
    \/ RecvKeepAlive
    \/ RecvChoke
    \/ RecvUnchoke
    \/ \E payload \in HavePayloads : RecvHave(payload)
    \/ \E payload \in BitfieldPayloads : RecvBitfield(payload)
    \/ \E payload \in PiecePayloads : RecvPiece(payload)
    \/ \E message_id \in OtherIds : RecvOther(message_id)

Spec == Init /\ [][Next]_vars

(***************************************************************************)
(* BitfieldSpec: process_bitfield applied to payloads, for torrents of up  *)
(* to MaxBitfieldPieces pieces.                                            *)
(***************************************************************************)
ProbeBytes == {0, 1, 64, 128, 160, 255}
ProbePayloads ==
    {<<>>} \cup { <<b>> : b \in ProbeBytes } \cup { <<a, b>> : a \in ProbeBytes, b \in ProbeBytes }

BitfieldInit ==
    /\ pc = "bitfield"
    /\ sock = "none"
    /\ received_handshake = NoHandshake
    /\ frames_read = 0
    /\ end_reason = "none"
    /\ peer_choking = TRUE
    /\ am_interested = FALSE
    /\ available_pieces = {}
    /\ downloaded_pieces = <<>>
    /\ sent = <<>>
    /\ file_writes = {}
    /\ last_frame = NoFrame
    /\ last_verify = NoVerify
    /\ cooperative = FALSE
    /\ total_pieces \in 1..MaxBitfieldPieces
    /\ torrent_piece_length = piece_length
    /\ bitfield_payload = <<>>
    /\ session = 0
    /\ OthersIdle

ApplyBitfield(payload) ==
    /\ pc = "bitfield"
    /\ bitfield_payload' = payload
    /\ available_pieces' = process_bitfield(payload, available_pieces, total_pieces)
    /\ UNCHANGED <<pc, sock, received_handshake, frames_read, end_reason, torrentVars,
                   peer_choking, am_interested, downloaded_pieces, sent, file_writes,
                   last_frame, last_verify, peerVars, session, otherVars>>

BitfieldNext == \E payload \in ProbePayloads : ApplyBitfield(payload)

BitfieldSpec == BitfieldInit /\ [][BitfieldNext]_vars

(***************************************************************************)
(* SessionsSpec: one process that, after a session has ended or a          *)
(* handshake has failed, calls perform_peer_handshake and                  *)
(* process_peer_messages again for its next peer.  The state of            *)
(* peer_client.py:9-12 is the module's: process_peer_messages declares it  *)
(* global (line 120) and nothing assigns it anew between calls.            *)
(***************************************************************************)
\* The first session of a process that may go on to other peers.
SessionsInit ==
    /\ SessionInit
    /\ total_pieces = MaxPieces
    /\ torrent_piece_length \in TorrentPieceLengths
    /\ bitfield_payload = <<>>
    /\ session = 1
    /\ OthersIdle

\* The next call: a new socket, a new loop.  frames_read keeps counting, so
\* MaxSessionsFrames bounds the frames of all sessions together.
NextSession ==
    /\ pc \in {"done", "failed"}
    /\ session >= 1
    /\ session < MaxSessions
    /\ session' = session + 1
    /\ pc' = "handshake"
    /\ sock' = "none"
    /\ received_handshake' = NoHandshake
    /\ end_reason' = "none"
    /\ sent' = <<>>
    /\ last_frame' = NoFrame
    /\ last_verify' = NoVerify
    /\ cooperative' = FALSE
    /\ UNCHANGED <<frames_read, torrentVars, peer_choking, am_interested, available_pieces,
                   downloaded_pieces, file_writes, bitfield_payload, otherVars>>

SessionsNext == Next \/ NextSession

SessionsSpec == SessionsInit /\ [][SessionsNext]_vars

(***************************************************************************)
(* bencoding.py.  Byte strings are sequences of byte values (ASCII codes). *)
(* A decoded value is [int |-> n], [bytes |-> s], [list |-> <<v, ...>>] or *)
(* [dict |-> f] with f a function from keys (byte strings) to values.      *)
(***************************************************************************)
CH_MINUS == 45
CH_ZERO == 48
CH_NINE == 57
CH_COLON == 58
CH_D == 100
CH_E == 101
CH_I == 105
CH_L == 108

\* A slice index as Python normalises it for a string of n bytes.
SliceIndex(i, n) == IF i < 0 THEN (IF i + n < 0 THEN 0 ELSE i + n) ELSE (IF i > n THEN n ELSE i)

\* b[lo:hi]
Slice(b, lo, hi) ==
    LET l == SliceIndex(lo, Len(b))
        h == SliceIndex(hi, Len(b))
    IN IF l >= h THEN <<>> ELSE SubSeq(b, l + 1, h)

\* b.find(bytes([c]), start): the first index at or after start that holds c, or -1.
Find(b, c, start) ==
    LET hits == { k \in SliceIndex(start, Len(b))..(Len(b) - 1) : b[k + 1] = c }
    IN IF hits = {} THEN -1 ELSE Min(hits)

IsDigit(c) == c >= CH_ZERO /\ c <= CH_NINE

\* Whether int(text.decode('utf-8')) returns, for text over the bytes the
\* model draws (digits, '-', letters, ':'): an optional sign, then digits.
IntParses(text) ==
    LET digits == IF text # <<>> /\ text[1] = CH_MINUS THEN Tail(text) ELSE text
    IN digits # <<>> /\ \A k \in 1..Len(digits) : IsDigit(digits[k])

RECURSIVE DigitsValue(_)
DigitsValue(digits) ==
    IF digits = <<>> THEN 0
    ELSE DigitsValue(SubSeq(digits, 1, Len(digits) - 1)) * 10 + (digits[Len(digits)] - CH_ZERO)

\* int(text) for a text that parses.
IntOf(text) == IF text[1] = CH_MINUS THEN 0 - DigitsValue(Tail(text)) ELSE DigitsValue(text)

\* str(n).encode('utf-8')
RECURSIVE NatStr(_)
NatStr(n) == IF n < 10 THEN <<CH_ZERO + n>> ELSE NatStr(n \div 10) \o <<CH_ZERO + (n % 10)>>

IntStr(n) == IF n < 0 THEN <<CH_MINUS>> \o NatStr(0 - n) ELSE NatStr(n)

\* What a decoder returns (the value and the position after it) or raises.
Decoded(val, pos) == [ok |-> TRUE, val |-> val, pos |-> pos]
Raises(error) == [ok |-> FALSE, error |-> error]

\* The calls a decode of b makes before it is taken not to return: every
\* value and every loop round of a decode that ends consumes bytes, so one
\* that is still running after this many is going round in circles (Python
\* then raises RecursionError, or stays in the while loop for ever).
DecodeFuel(b) == 2 * Len(b) + 2

decode_int(b, start) ==
    LET end == Find(b, CH_E, start) IN
    IF end = -1 THEN Raises("ValueError")
    ELSE IF ~IntParses(Slice(b, start + 1, end)) THEN Raises("ValueError")
    ELSE Decoded([int |-> IntOf(Slice(b, start + 1, end))], end + 1)

decode_string(b, start) ==
    LET colon_index == Find(b, CH_COLON, start) IN
    IF colon_index = -1 THEN Raises("ValueError")
    ELSE IF ~IntParses(Slice(b, start, colon_index)) THEN Raises("ValueError")
    ELSE LET length == IntOf(Slice(b, start, colon_index))
             string_start == colon_index + 1
             string_end == string_start + length
         IN Decoded([bytes |-> Slice(b, string_start, string_end)], string_end)

RECURSIVE decode_value(_, _, _)
RECURSIVE decode_list(_, _, _, _)
RECURSIVE decode_dict(_, _, _, _)

\* The while loop of decode_list at current_pos, with the list so far.
decode_list(b, current_pos, decoded_list, fuel) ==
    IF fuel = 0 THEN Raises("NoReturn")
    ELSE IF Slice(b, current_pos, current_pos + 1) = <<CH_E>>
    THEN Decoded([list |-> decoded_list], current_pos + 1)
    ELSE LET r == decode_value(b, current_pos, fuel - 1) IN
         IF ~r.ok THEN r
         ELSE decode_list(b, r.pos, Append(decoded_list, r.val), fuel - 1)

\* The while loop of decode_dict at current_pos, with the dict so far.
decode_dict(b, current_pos, decoded_dict, fuel) ==
    IF fuel = 0 THEN Raises("NoReturn")
    ELSE IF Slice(b, current_pos, current_pos + 1) = <<CH_E>>
    THEN Decoded([dict |-> decoded_dict], current_pos + 1)
    ELSE LET k == decode_string(b, current_pos) IN
         IF ~k.ok THEN k
         ELSE LET r == decode_value(b, k.pos, fuel - 1) IN
              IF ~r.ok THEN r
              ELSE decode_dict(b, r.pos, Put(decoded_dict, k.val.bytes, r.val), fuel - 1)

decode_value(b, start, fuel) ==
    LET prefix == Slice(b, start, start + 1) IN
    IF fuel = 0 THEN Raises("NoReturn")
    ELSE IF prefix = <<CH_I>> THEN decode_int(b, start)
    ELSE IF prefix # <<>> /\ IsDigit(prefix[1]) THEN decode_string(b, start)
    ELSE IF prefix = <<CH_L>> THEN decode_list(b, start + 1, <<>>, fuel)
    ELSE IF prefix = <<CH_D>> THEN decode_dict(b, start + 1, <<>>, fuel)
    ELSE Raises("ValueError")

\* bdecode(b): [ok |-> TRUE, val |-> the value], or what is raised.
bdecode(b) ==
    LET r == decode_value(b, 0, DecodeFuel(b)) IN
    IF r.ok THEN [ok |-> TRUE, val |-> r.val] ELSE r

\* a < b for byte strings, as Python compares bytes.
RECURSIVE BytesLess(_, _)
BytesLess(a, b) ==
    IF b = <<>> THEN FALSE
    ELSE IF a = <<>> THEN TRUE
    ELSE IF a[1] # b[1] THEN a[1] < b[1]
    ELSE BytesLess(Tail(a), Tail(b))

\* sorted(value.keys()) without the sorting: the greatest key comes first.
FirstKey_greatest(keys) == CHOOSE k \in keys : \A j \in keys \ {k} : BytesLess(j, k)

\* sorted(keys)[0]
FirstKey(keys) == CHOOSE k \in keys : \A j \in keys \ {k} : BytesLess(k, j)

RECURSIVE bencode_value(_)
RECURSIVE bencode_items(_)
RECURSIVE bencode_entries(_, _)

\* The loop over a list's items.
bencode_items(items) ==
    IF items = <<>> THEN <<>>
    ELSE bencode_value(Head(items)) \o bencode_items(Tail(items))

\* The loop over sorted(value.keys()), from the keys not yet written.
bencode_entries(d, keys) ==
    IF keys = {} THEN <<>>
    ELSE LET key == FirstKey(keys) IN
         bencode_value([bytes |-> key]) \o bencode_value(d[key])
             \o bencode_entries(d, keys \ {key})

bencode_value(value) ==
    IF "int" \in DOMAIN value THEN <<CH_I>> \o IntStr(value.int) \o <<CH_E>>
    ELSE IF "bytes" \in DOMAIN value THEN IntStr(Len(value.bytes)) \o <<CH_COLON>> \o value.bytes
    ELSE IF "list" \in DOMAIN value THEN <<CH_L>> \o bencode_items(value.list) \o <<CH_E>>
    ELSE <<CH_D>> \o bencode_entries(value.dict, DOMAIN value.dict) \o <<CH_E>>

(***************************************************************************)
(* tracker_client.py: get_peers_from_tracker.                              *)
(***************************************************************************)
CONNECT_ACTION == 0
ANNOUNCE_ACTION == 1
ERROR_ACTION == 3
CH_DOT == 46

\* connection_id = 0x41727101980 of the connect request.
MAGIC_CONNECTION_ID == "0x41727101980"

\* b'failure reason' and b'peers', b'ip' and b'port'.
KEY_FAILURE_REASON == <<102, 97, 105, 108, 117, 114, 101, 32, 114, 101, 97, 115, 111, 110>>
KEY_PEERS == <<112, 101, 101, 114, 115>>
KEY_IP == <<105, 112>>
KEY_PORT == <<112, 111, 114, 116>>

\* What get_peers_from_tracker returns, or the exception that leaves it.
Returned(peers) == [kind |-> "returned", peers |-> peers]
Raised(error) == [kind |-> "raised", error |-> error]

\* socket.inet_ntoa(ip_bytes) of 4 bytes: the dotted decimal string.
inet_ntoa(ip_bytes) ==
    NatStr(ip_bytes[1]) \o <<CH_DOT>> \o NatStr(ip_bytes[2]) \o <<CH_DOT>>
        \o NatStr(ip_bytes[3]) \o <<CH_DOT>> \o NatStr(ip_bytes[4])

\* UnpackU16 reading the port low byte first.
UnpackU16_little_endian(port_bytes) == port_bytes[2] * 256 + port_bytes[1]

\* struct.unpack('>H', port_bytes)[0] of 2 bytes.
UnpackU16(port_bytes) == port_bytes[1] * 256 + port_bytes[2]

\* for i in range(start, len(data), 6): the peers appended from index i on,
\* or what inet_ntoa or struct.unpack raises on a slice that is too short.
RECURSIVE decode_peers(_, _)
decode_peers(data, i) ==
    IF i >= Len(data) THEN [ok |-> TRUE, peers |-> <<>>]
    ELSE LET ip_bytes == Slice(data, i, i + 4)
             port_bytes == Slice(data, i + 4, i + 6)
         IN IF Len(ip_bytes) # 4 THEN Raises("OSError")
            ELSE IF Len(port_bytes) # 2 THEN Raises("struct.error")
            ELSE LET rest == decode_peers(data, i + 6) IN
                 IF ~rest.ok THEN rest
                 ELSE [ok |-> TRUE,
                       peers |-> << [ip |-> inet_ntoa(ip_bytes),
                                     port |-> UnpackU16(port_bytes)] >> \o rest.peers]

\* key in value, for a bytes value: key occurs in it.
IsSubstring(key, value) ==
    \E k \in 0..(Len(value) - Len(key)) : SubSeq(value, k + 1, k + Len(key)) = key

\* The for loop over a 'peers' list of dictionaries.
RECURSIVE peers_from_list(_)
peers_from_list(items) ==
    IF items = <<>> THEN [ok |-> TRUE, peers |-> <<>>]
    ELSE LET peer_info == Head(items) IN
         IF "dict" \notin DOMAIN peer_info THEN Raises("TypeError")
         ELSE IF KEY_IP \notin DOMAIN peer_info.dict THEN Raises("KeyError")
         ELSE IF "bytes" \notin DOMAIN peer_info.dict[KEY_IP] THEN Raises("AttributeError")
         ELSE IF KEY_PORT \notin DOMAIN peer_info.dict THEN Raises("KeyError")
         ELSE LET rest == peers_from_list(Tail(items)) IN
              IF ~rest.ok THEN rest
              ELSE [ok |-> TRUE,
                    peers |-> << [ip |-> peer_info.dict[KEY_IP].bytes,
                                  port |-> peer_info.dict[KEY_PORT]] >> \o rest.peers]

\* Lines 61-84 on the decoded response of an HTTP tracker.
http_peers(tracker_response_value) ==
    LET v == tracker_response_value IN
    IF "int" \in DOMAIN v THEN Raised("TypeError")
    ELSE IF "bytes" \in DOMAIN v
    THEN IF IsSubstring(KEY_FAILURE_REASON, v.bytes) \/ IsSubstring(KEY_PEERS, v.bytes)
         THEN Raised("TypeError") ELSE Returned(<<>>)
    ELSE IF "list" \in DOMAIN v
    THEN IF \E k \in 1..Len(v.list) :
              v.list[k] \in {[bytes |-> KEY_FAILURE_REASON], [bytes |-> KEY_PEERS]}
         THEN Raised("TypeError") ELSE Returned(<<>>)
    ELSE IF KEY_FAILURE_REASON \in DOMAIN v.dict
    THEN IF "bytes" \in DOMAIN v.dict[KEY_FAILURE_REASON]
         THEN Returned(<<>>) ELSE Raised("AttributeError")
    ELSE IF KEY_PEERS \notin DOMAIN v.dict THEN Returned(<<>>)
    ELSE LET peers_data == v.dict[KEY_PEERS] IN
         IF "bytes" \in DOMAIN peers_data
         THEN LET r == decode_peers(peers_data.bytes, 0) IN
              IF r.ok THEN Returned(r.peers) ELSE Raised(r.error)
         ELSE IF "list" \in DOMAIN peers_data
         THEN LET r == peers_from_list(peers_data.list) IN
              IF r.ok THEN Returned(r.peers) ELSE Raised(r.error)
         ELSE Returned(<<>>)

\* The try block of the HTTP branch on what requests.get gives: an exception
\* of requests (transport, or raise_for_status) is caught; the body of a
\* good response is decoded and read.
http_result(response) ==
    IF response.kind # "ok" THEN Returned(<<>>)
    ELSE LET decoded == bdecode(response.content) IN
         IF ~decoded.ok THEN Raised(decoded.error)
         ELSE http_peers(decoded.val)

(***************************************************************************)
(* TrackerSpec: one call of get_peers_from_tracker, with what the tracker  *)
(* (or the network) answers.                                               *)
(***************************************************************************)
\* The most peers in a tracker's compact peer data.
MaxPeers == 3

\* urlparse(announce_url).scheme; "udp_no_port" is a udp URL without host or port.
Schemes == {"http", "https", "udp", "udp_no_port", "wss"}

\* random.randint(0, 0xFFFFFFFF)
TransactionIds == {1, 2}

\* The 8 bytes of a connection id.
ConnectionIds == { <<0, 0, 0, 0, 0, 0, 0, c>> : c \in {7, 8} }

\* 6 bytes of one peer: IPv4 and port.
PeerEntries == { <<a, 0, 1, 2, p, q>> : a \in {10, 200}, p \in {0, 200}, q \in {0, 200} }

RECURSIVE Flatten(_)
Flatten(strings) == IF strings = <<>> THEN <<>> ELSE Head(strings) \o Flatten(Tail(strings))

\* Compact peer data of 0..MaxPeers peers, and the same cut short by a byte.
PeersData == { Flatten(l) : l \in UNION { [1..k -> PeerEntries] : k \in 0..MaxPeers } }
TruncatedPeersData == { SubSeq(d, 1, Len(d) - 1) : d \in PeersData \ {<<>>} }

\* A connect response: action, transaction id, connection id; or 8 bytes only.
ConnectResponses ==
    { PackU32(a) \o PackU32(t) \o c :
        a \in {CONNECT_ACTION, ANNOUNCE_ACTION, ERROR_ACTION}, t \in TransactionIds,
        c \in ConnectionIds }
    \cup { PackU32(CONNECT_ACTION) \o PackU32(t) : t \in TransactionIds }

\* An announce response: action, transaction id, interval, leechers, seeders
\* and the peer data; or an error response of 8 bytes and a message.
AnnounceResponses ==
    { PackU32(a) \o PackU32(t) \o PackU32(1800) \o PackU32(0) \o PackU32(1) \o d :
        a \in {ANNOUNCE_ACTION, ERROR_ACTION}, t \in TransactionIds,
        d \in PeersData \cup TruncatedPeersData }
    \cup { PackU32(ERROR_ACTION) \o PackU32(t) \o <<CH_E>> : t \in TransactionIds }

\* The bodies of HTTP responses with status 200.
HttpValues ==
    { [dict |-> (KEY_PEERS :> [bytes |-> d])] : d \in PeersData \cup TruncatedPeersData }
    \cup { [dict |-> <<>>],
           [dict |-> (KEY_FAILURE_REASON :> [bytes |-> <<CH_E>>])],
           [dict |-> (KEY_FAILURE_REASON :> [int |-> 1])],
           [dict |-> (KEY_PEERS :> [int |-> 1])],
           [dict |-> (KEY_PEERS :> [list |-> << [dict |-> (KEY_IP :> [bytes |-> <<CH_ZERO>>]
                                                           @@ KEY_PORT :> [int |-> 1])] >>])],
           [dict |-> (KEY_PEERS :> [list |-> << [dict |-> <<>>] >>])],
           [list |-> <<>>],
           [bytes |-> <<>>],
           [int |-> 1] }

HttpResponses ==
    { [kind |-> "transport_error"], [kind |-> "status_error"] }
    \cup { [kind |-> "ok", content |-> bencode_value(v)] : v \in HttpValues }
    \cup { [kind |-> "ok", content |-> c] : c \in { <<>>, <<60, 104, 62>>, <<CH_D>> } }

\* Everything but the tracker exchange.
nonTrackerVars == <<pc, sock, received_handshake, frames_read, end_reason, torrentVars,
                    peer_choking, am_interested, available_pieces, downloaded_pieces, sent,
                    file_writes, last_frame, last_verify, cooperative, session,
                    bitfield_payload, bencodeVars, parserVars>>

\* main.py:33 is about to call get_peers_from_tracker.
TrackerInit ==
    /\ pc = "tracker"
    /\ sock = "none"
    /\ received_handshake = NoHandshake
    /\ frames_read = 0
    /\ end_reason = "none"
    /\ peer_choking = TRUE
    /\ am_interested = FALSE
    /\ available_pieces = {}
    /\ downloaded_pieces = <<>>
    /\ sent = <<>>
    /\ file_writes = {}
    /\ last_frame = NoFrame
    /\ last_verify = NoVerify
    /\ cooperative = FALSE
    /\ total_pieces = MaxPieces
    /\ torrent_piece_length = piece_length
    /\ bitfield_payload = <<>>
    /\ session = 0
    /\ tracker_pc = "start"
    /\ scheme \in Schemes
    /\ transaction_id = 0
    /\ udp_sent = <<>>
    /\ tracker_response = NoResponse
    /\ tracker_result = NoResult
    /\ BencodeIdle
    /\ ParserIdle

\* get_peers_from_tracker ends with this result.
TrackerEnds(result) ==
    /\ tracker_pc' = "done"
    /\ tracker_result' = result

\* The datagrams of the UDP branch.
ConnectRequest(tid) ==
    [action |-> CONNECT_ACTION, connection_id |-> MAGIC_CONNECTION_ID, transaction_id |-> tid]
AnnounceRequest(connection_id, tid) ==
    [action |-> ANNOUNCE_ACTION, connection_id |-> connection_id, transaction_id |-> tid]

\* Lines 196-198: neither http(s) nor udp.
TrackerUnsupported ==
    /\ tracker_pc = "start"
    /\ scheme \notin {"http", "https", "udp", "udp_no_port"}
    /\ TrackerEnds(Returned(<<>>))
    /\ UNCHANGED <<scheme, transaction_id, udp_sent, tracker_response, nonTrackerVars>>

\* Lines 96-98: a udp URL without host or port.
UdpInvalidUrl ==
    /\ tracker_pc = "start"
    /\ scheme = "udp_no_port"
    /\ TrackerEnds(Returned(<<>>))
    /\ UNCHANGED <<scheme, transaction_id, udp_sent, tracker_response, nonTrackerVars>>

\* Lines 28-88: the request to an HTTP(S) tracker and what comes of it.
HttpAnnounce(response) ==
    /\ tracker_pc = "start"
    /\ scheme \in {"http", "https"}
    /\ tracker_response' = response
    /\ TrackerEnds(http_result(response))
    /\ UNCHANGED <<scheme, transaction_id, udp_sent, nonTrackerVars>>

\* Lines 101-111: the connect request with a fresh transaction id.
UdpConnect(tid) ==
    /\ tracker_pc = "start"
    /\ scheme = "udp"
    /\ transaction_id' = tid
    /\ udp_sent' = Append(udp_sent, ConnectRequest(tid))
    /\ tracker_pc' = "connect"
    /\ UNCHANGED <<scheme, tracker_response, tracker_result, nonTrackerVars>>

\* UdpConnectResponse without the check of line 120: any 16 bytes are taken
\* for a connect response.
UdpConnectResponse_no_check(response_data, tid) ==
    /\ tracker_pc = "connect"
    /\ tracker_response' = [kind |-> "udp", data |-> response_data]
    /\ LET head == Slice(response_data, 0, 16) IN
       IF Len(head) # 16
       THEN /\ TrackerEnds(Returned(<<>>))
            /\ UNCHANGED <<transaction_id, udp_sent>>
       ELSE /\ transaction_id' = tid
            /\ udp_sent' = Append(udp_sent, AnnounceRequest(Slice(head, 8, 16), tid))
            /\ tracker_pc' = "announce"
            /\ UNCHANGED tracker_result
    /\ UNCHANGED <<scheme, nonTrackerVars>>

\* Lines 114-161: the connect response; on a good one the announce request
\* with a new transaction id. A datagram under 16 bytes makes struct.unpack
\* raise, which line 193 catches.
UdpConnectResponse(response_data, tid) ==
    /\ tracker_pc = "connect"
    /\ tracker_response' = [kind |-> "udp", data |-> response_data]
    /\ LET head == Slice(response_data, 0, 16) IN
       IF Len(head) # 16
       THEN /\ TrackerEnds(Returned(<<>>))
            /\ UNCHANGED <<transaction_id, udp_sent>>
       ELSE LET response_action == UnpackU32(Slice(head, 0, 4))
                response_transaction_id == UnpackU32(Slice(head, 4, 8))
                new_connection_id == Slice(head, 8, 16)
            IN IF response_action # CONNECT_ACTION \/ response_transaction_id # transaction_id
               THEN /\ TrackerEnds(Returned(<<>>))
                    /\ UNCHANGED <<transaction_id, udp_sent>>
               ELSE /\ transaction_id' = tid
                    /\ udp_sent' = Append(udp_sent, AnnounceRequest(new_connection_id, tid))
                    /\ tracker_pc' = "announce"
                    /\ UNCHANGED tracker_result
    /\ UNCHANGED <<scheme, nonTrackerVars>>

\* Lines 164-188: the announce response and its peers; what struct.unpack or
\* inet_ntoa raises is caught by line 193.
UdpAnnounceResponse(response_data) ==
    /\ tracker_pc = "announce"
    /\ tracker_response' = [kind |-> "udp", data |-> response_data]
    /\ LET head == Slice(response_data, 0, 20) IN
       IF Len(head) # 20
       THEN TrackerEnds(Returned(<<>>))
       ELSE LET response_action == UnpackU32(Slice(head, 0, 4))
                response_transaction_id == UnpackU32(Slice(head, 4, 8))
                peers_data_start == 20
            IN IF response_action # ANNOUNCE_ACTION \/ response_transaction_id # transaction_id
               THEN TrackerEnds(Returned(<<>>))
               ELSE LET r == decode_peers(response_data, peers_data_start) IN
                    TrackerEnds(Returned(IF r.ok THEN r.peers ELSE <<>>))
    /\ UNCHANGED <<scheme, transaction_id, udp_sent, nonTrackerVars>>

\* Lines 190-192: no datagram within the 10 seconds of the socket's timeout.
UdpTimeout ==
    /\ tracker_pc \in {"connect", "announce"}
    /\ tracker_response' = [kind |-> "timeout"]
    /\ TrackerEnds(Returned(<<>>))
    /\ UNCHANGED <<scheme, transaction_id, udp_sent, nonTrackerVars>>

\* Lines 193-195: the socket calls raise (name resolution, an ICMP error).
UdpSocketError ==
    /\ \/ tracker_pc = "start" /\ scheme = "udp"
       \/ tracker_pc \in {"connect", "announce"}
    /\ tracker_response' = [kind |-> "socket_error"]
    /\ TrackerEnds(Returned(<<>>))
    /\ UNCHANGED <<scheme, transaction_id, udp_sent, nonTrackerVars>>

TrackerNext ==
    \/ TrackerUnsupported
    \/ UdpInvalidUrl
    \/ \E response \in HttpResponses : HttpAnnounce(response)
    \/ \E tid \in TransactionIds : UdpConnect(tid)
    \/ \E response_data \in ConnectResponses, tid \in TransactionIds :
           UdpConnectResponse(response_data, tid)
    \/ \E response_data \in AnnounceResponses : UdpAnnounceResponse(response_data)
    \/ UdpTimeout
    \/ UdpSocketError

TrackerSpec == TrackerInit /\ [][TrackerNext]_vars

(***************************************************************************)
(* BencodeSpec: bdecode applied to a byte string, and bencode_value to     *)
(* what it gave.                                                           *)
(***************************************************************************)
\* The most items of a list or dictionary among the inputs, and the length
\* up to which every byte string over Alphabet is an input.
MaxItems == 2
MaxInputLen == 4

\* i e l d : 0 1 2 - a
Alphabet == {CH_I, CH_E, CH_L, CH_D, CH_COLON, CH_ZERO, 49, 50, CH_MINUS, 97}

ShortInputs == UNION { [1..n -> Alphabet] : n \in 0..MaxInputLen }

\* i0e i7e i-3e i12e 0: 1:a 2:ab 3:i1e 10:0123456789
CanonAtoms ==
    { <<105, 48, 101>>, <<105, 55, 101>>, <<105, 45, 51, 101>>, <<105, 49, 50, 101>>,
      <<48, 58>>, <<49, 58, 97>>, <<50, 58, 97, 98>>, <<51, 58, 105, 49, 101>>,
      <<49, 48, 58, 48, 49, 50, 51, 52, 53, 54, 55, 56, 57>> }

\* The encoded keys "", "a", "ab", "b", in ascending byte order.
CanonKeys == << <<48, 58>>, <<49, 58, 97>>, <<50, 58, 97, 98>>, <<49, 58, 98>> >>

CanonLists(items) ==
    { <<108>> \o Flatten(l) \o <<101>> : l \in UNION { [1..k -> items] : k \in 0..MaxItems } }

\* The entries of the keys numbered in S, lowest first, with the values v.
RECURSIVE CanonEntries(_, _)
CanonEntries(S, v) ==
    IF S = {} THEN <<>>
    ELSE LET k == CHOOSE x \in S : \A y \in S : x <= y
         IN CanonKeys[k] \o v[k] \o CanonEntries(S \ {k}, v)

CanonDicts(items) ==
    { <<100>> \o CanonEntries(DOMAIN v, v) \o <<101>> :
        v \in UNION { [S -> items] : S \in { T \in SUBSET (1..Len(CanonKeys)) :
                                                Cardinality(T) <= MaxItems } } }

\* Lists and dictionaries of atoms, and of lists and dictionaries.
CanonFlat == CanonLists(CanonAtoms) \cup CanonDicts(CanonAtoms)
CanonInner == CanonLists({<<105, 45, 51, 101>>}) \cup CanonDicts({<<105, 45, 51, 101>>})
CanonNested == CanonLists(CanonInner) \cup CanonDicts(CanonInner)

\* Canonical bencodings: keys ascending, integers without sign or zeros to spare.
CanonicalInputs == CanonAtoms \cup CanonFlat \cup CanonNested

BencodeInputs == ShortInputs \cup CanonicalInputs

\* No peer session is running.
NoSession ==
    /\ sock = "none"
    /\ received_handshake = NoHandshake
    /\ frames_read = 0
    /\ end_reason = "none"
    /\ peer_choking = TRUE
    /\ am_interested = FALSE
    /\ available_pieces = {}
    /\ downloaded_pieces = <<>>
    /\ sent = <<>>
    /\ file_writes = {}
    /\ last_frame = NoFrame
    /\ last_verify = NoVerify
    /\ cooperative = FALSE
    /\ total_pieces = MaxPieces
    /\ torrent_piece_length = piece_length
    /\ bitfield_payload = <<>>
    /\ session = 0

BencodeInit ==
    /\ pc = "bencoding"
    /\ NoSession
    /\ TrackerIdle
    /\ ParserIdle
    /\ bencode_pc = "start"
    /\ bencoded_bytes \in BencodeInputs
    /\ bdecoded = NoResult
    /\ encoded = NoBytes

nonBencodeVars == <<pc, sock, received_handshake, frames_read, end_reason, torrentVars,
                    peer_choking, am_interested, available_pieces, downloaded_pieces, sent,
                    file_writes, last_frame, last_verify, cooperative, session,
                    bitfield_payload, trackerVars, parserVars>>

\* bdecode(bencoded_bytes)
Bdecode ==
    /\ bencode_pc = "start"
    /\ bdecoded' = bdecode(bencoded_bytes)
    /\ bencode_pc' = "decoded"
    /\ UNCHANGED <<bencoded_bytes, encoded, nonBencodeVars>>

\* bencode_value of the decoded value.
Bencode ==
    /\ bencode_pc = "decoded"
    /\ bdecoded.ok
    /\ encoded' = [kind |-> "bytes", bytes |-> bencode_value(bdecoded.val)]
    /\ bencode_pc' = "encoded"
    /\ UNCHANGED <<bencoded_bytes, bdecoded, nonBencodeVars>>

BencodeNext == Bdecode \/ Bencode

BencodeSpec == BencodeInit /\ [][BencodeNext]_vars

(***************************************************************************)
(* TorrentSpec: parse_torrent_file on the contents of a .torrent file,     *)
(* then the extraction of the piece hashes in main.py.                     *)
(***************************************************************************)
\* The most whole hashes in a torrent's 'pieces'.
MaxHashes == 2

\* Each piece hash is 20 bytes (main.py:23).
HASH_LEN == 20

\* b'announce', b'info', b'name', b'files', b'length', b'pieces', b'piece length'
KEY_ANNOUNCE == <<97, 110, 110, 111, 117, 110, 99, 101>>
KEY_INFO == <<105, 110, 102, 111>>
KEY_NAME == <<110, 97, 109, 101>>
KEY_FILES == <<102, 105, 108, 101, 115>>
KEY_LENGTH == <<108, 101, 110, 103, 116, 104>>
KEY_PIECES == <<112, 105, 101, 99, 101, 115>>
KEY_PIECE_LENGTH == <<112, 105, 101, 99, 101, 32, 108, 101, 110, 103, 116, 104>>

\* A 'pieces' string of n bytes, each byte its own position.
PiecesOf(n) == [k \in 1..n |-> k]

PiecesLengths == { HASH_LEN * k + r : k \in 0..MaxHashes, r \in {0, 1} } \cup {HASH_LEN - 1}

\* A key that may be absent, or present with one of the values.
Optional(key, values) == { <<>> } \cup { key :> v : v \in values }

InfoDicts ==
    { [dict |-> n @@ l @@ p @@ h @@ f] :
        n \in Optional(KEY_NAME, {[bytes |-> <<97>>]}),
        l \in Optional(KEY_LENGTH, {[int |-> 5]}),
        p \in Optional(KEY_PIECE_LENGTH, {[int |-> 4]}),
        h \in Optional(KEY_PIECES, { [bytes |-> PiecesOf(m)] : m \in PiecesLengths }
                                      \cup {[int |-> 1]}),
        f \in Optional(KEY_FILES, {[list |-> << [dict |-> (KEY_LENGTH :> [int |-> 5])] >>]}) }

Torrents ==
    { [dict |-> a @@ i] :
        a \in Optional(KEY_ANNOUNCE, {[bytes |-> <<117>>], [int |-> 1]}),
        i \in Optional(KEY_INFO, InfoDicts \cup {[int |-> 1], [list |-> <<>>]}) }

\* The files: bencoded torrents, a bencoded list, and bytes that are no bencoding.
TorrentFiles ==
    { bencode_value(t) : t \in Torrents } \cup { <<CH_L, CH_E>>, <<>>, <<CH_D>> }

\* hashlib.sha1(data).digest(), kept as the data digested.
InfoHash(data) == [sha1 |-> data]

\* total_length of lines 33-38 for the files list: the sum, or what raises.
RECURSIVE files_length(_)
files_length(files) ==
    IF files = <<>> THEN [ok |-> TRUE, total |-> 0]
    ELSE LET file_info == Head(files) IN
         IF "dict" \notin DOMAIN file_info THEN Raises("TypeError")
         ELSE IF KEY_LENGTH \notin DOMAIN file_info.dict THEN Raises("KeyError")
         ELSE IF "int" \notin DOMAIN file_info.dict[KEY_LENGTH] THEN Raises("TypeError")
         ELSE LET rest == files_length(Tail(files)) IN
              IF ~rest.ok THEN rest
              ELSE [ok |-> TRUE, total |-> file_info.dict[KEY_LENGTH].int + rest.total]

\* parse_torrent_file on the file's bytes: what it returns, or the exception.
parse_torrent_file(data) ==
    LET d == bdecode(data) IN
    IF ~d.ok THEN Raised(d.error)
    ELSE LET decoded_torrent == d.val IN
    IF "dict" \notin DOMAIN decoded_torrent THEN Raised("TypeError")
    ELSE IF KEY_ANNOUNCE \notin DOMAIN decoded_torrent.dict THEN Raised("KeyError")
    ELSE IF "bytes" \notin DOMAIN decoded_torrent.dict[KEY_ANNOUNCE] THEN Raised("AttributeError")
    ELSE IF KEY_INFO \notin DOMAIN decoded_torrent.dict THEN Raised("KeyError")
    ELSE LET info_dict == decoded_torrent.dict[KEY_INFO]
             returned == [kind |-> "returned",
                          decoded_torrent |-> decoded_torrent,
                          announce_url |-> decoded_torrent.dict[KEY_ANNOUNCE].bytes,
                          info_hash |-> InfoHash(bencode_value(info_dict))]
         IN
    IF "dict" \notin DOMAIN info_dict THEN Raised("TypeError")
    ELSE IF KEY_NAME \in DOMAIN info_dict.dict /\ "bytes" \notin DOMAIN info_dict.dict[KEY_NAME]
    THEN Raised("AttributeError")
    ELSE IF KEY_FILES \in DOMAIN info_dict.dict
    THEN IF "list" \notin DOMAIN info_dict.dict[KEY_FILES] THEN Raised("TypeError")
         ELSE LET r == files_length(info_dict.dict[KEY_FILES].list) IN
              IF r.ok THEN returned ELSE Raised(r.error)
    ELSE IF KEY_LENGTH \notin DOMAIN info_dict.dict THEN Raised("KeyError")
    ELSE returned

\* main.py:21-30 on the decoded torrent: the list of piece hashes, or the
\* exception.
extract_piece_hashes(decoded_torrent_data) ==
    LET info_dict == decoded_torrent_data.dict[KEY_INFO] IN
    IF KEY_PIECES \notin DOMAIN info_dict.dict THEN Raised("KeyError")
    ELSE LET pieces_hash == info_dict.dict[KEY_PIECES] IN
         IF "int" \in DOMAIN pieces_hash THEN Raised("TypeError")
         ELSE LET data == IF "bytes" \in DOMAIN pieces_hash THEN pieces_hash.bytes
                          ELSE IF "list" \in DOMAIN pieces_hash THEN pieces_hash.list
                          ELSE <<>>
                  torrent_total_pieces == Len(data) \div HASH_LEN
              IN [kind |-> "list",
                  hashes |-> [i \in 1..torrent_total_pieces |->
                                 Slice(data, (i - 1) * HASH_LEN, i * HASH_LEN)]]

TorrentInit ==
    /\ pc = "parsing"
    /\ NoSession
    /\ TrackerIdle
    /\ BencodeIdle
    /\ parser_pc = "start"
    /\ torrent_data_bytes \in TorrentFiles
    /\ parse_result = NoResult
    /\ extracted_hashes = NoHashes

nonParserVars == <<pc, sock, received_handshake, frames_read, end_reason, torrentVars,
                   peer_choking, am_interested, available_pieces, downloaded_pieces, sent,
                   file_writes, last_frame, last_verify, cooperative, session,
                   bitfield_payload, trackerVars, bencodeVars>>

\* main.py:18; an exception goes to the handler of line 53.
ParseTorrentFile ==
    /\ parser_pc = "start"
    /\ parse_result' = parse_torrent_file(torrent_data_bytes)
    /\ parser_pc' = IF parse_result'.kind = "returned" THEN "parsed" ELSE "failed"
    /\ UNCHANGED <<torrent_data_bytes, extracted_hashes, nonParserVars>>

\* open() finds no file: the handler of line 51.
TorrentFileNotFound ==
    /\ parser_pc = "start"
    /\ parse_result' = Raised("FileNotFoundError")
    /\ parser_pc' = "failed"
    /\ UNCHANGED <<torrent_data_bytes, extracted_hashes, nonParserVars>>

\* main.py:21-30
ExtractPieceHashes ==
    /\ parser_pc = "parsed"
    /\ extracted_hashes' = extract_piece_hashes(parse_result.decoded_torrent)
    /\ parser_pc' = IF extracted_hashes'.kind = "list" THEN "hashes" ELSE "failed"
    /\ UNCHANGED <<torrent_data_bytes, parse_result, nonParserVars>>

TorrentNext == ParseTorrentFile \/ TorrentFileNotFound \/ ExtractPieceHashes

TorrentSpec == TorrentInit /\ [][TorrentNext]_vars

(***************************************************************************)
(* Properties.                                                             *)
(***************************************************************************)
\* The session state of the spec's data model, with the loop's position.
sessionState == <<pc, sock, end_reason, peer_choking, am_interested, available_pieces,
                  downloaded_pieces, sent, file_writes>>

\* The step handled a message with this id.
Handles(message_id) == last_frame'.kind = "message" /\ last_frame'.id = message_id

\* The step put a REQUEST on the wire.
SendsRequest == Len(sent') = Len(sent) + 1 /\ sent'[Len(sent')].kind = "request"

Sent(kind) == { k \in 1..Len(sent) : sent[k].kind = kind }

\* C1: a REQUEST is sent only while peer_choking is false, whichever handler
\* (unchoke, piece) calls the scheduler: every step that puts a REQUEST on the
\* wire has peer_choking false when sendall runs.
C1_RequestOnlyWhenUnchoked == [][SendsRequest => ~peer_choking']_vars

\* A REQUEST sent by the piece handler: the third frame is a PIECE, and a
\* request followed it.
C1_Witness ==
    /\ last_frame.kind = "message" /\ last_frame.id = MESSAGE_PIECE
    /\ Len(sent) = 3 /\ sent[3].kind = "request"
    /\ ~peer_choking

\* sha1 of the record's blocks in ascending offset order.
RecordDigest(rec) == Sha1(ConcatBlocks(rec.blocks, DOMAIN rec.blocks))

\* C2: in every reachable state, the blocks of every record marked complete,
\* concatenated in ascending offset order, hash to piece_hashes[index], also
\* after further PIECE messages for that index.
C2_CompletePieceHashes ==
    \A i \in DOMAIN downloaded_pieces :
        downloaded_pieces[i].is_complete =>
            /\ i \in DOMAIN piece_hashes
            /\ RecordDigest(downloaded_pieces[i]) = piece_hashes[i]

\* C3: when an assembled piece that was requested fails verification its
\* record is cleared, and with the peer unchoking, us interested and the piece
\* the first available one that is not complete, the scheduler call that
\* follows in the same handler requests a block of that piece again.
C3_FailedPieceRequestedAgain ==
    [][ ( /\ last_verify'.called
          /\ ~last_verify'.ok
          /\ \E k \in Sent("request") : sent[k].index = last_verify'.index ) =>
          LET i == last_verify'.index
              rec == downloaded_pieces'[i]
          IN /\ DOMAIN rec.blocks = {}
             /\ ~rec.is_complete
             /\ ( ( /\ ~peer_choking'
                    /\ am_interested'
                    /\ i \in available_pieces'
                    /\ end_reason' # "send_error"
                    /\ \A j \in available_pieces' :
                         j < i => (j \in DOMAIN downloaded_pieces'
                                   /\ downloaded_pieces'[j].is_complete) )
                  => (SendsRequest /\ sent'[Len(sent')].index = i) )
      ]_vars

\* The piece is in the output file.
Written(i) == \E w \in file_writes : w.index = i /\ w.data = PieceData(i, torrent_piece_length)

\* C4: with the scripted peer (bitfield {0}, unchoke, the right bytes for
\* every requested block) on a torrent whose pieces have the records'
\* piece_length, the session sends interested after the bitfield and
\* request(0, 0, 16384) after the unchoke, and from then on, until piece 0 is
\* verified and written, a request for a block of piece 0 is out for the peer
\* to answer.
C4_CooperativePeerDownload ==
    (cooperative /\ pc = "loop" /\ torrent_piece_length = piece_length) =>
        /\ frames_read >= 1 => (Len(sent) >= 1 /\ sent[1] = InterestedMsg)
        /\ frames_read >= 2 =>
             /\ Len(sent) >= 2
             /\ sent[2] = RequestMsg(0, 0, 16384)
             /\ 0 \in DOMAIN downloaded_pieces
             /\ Written(0) \/ downloaded_pieces[0].requested_blocks # {}

\* Blocks sorted by offset are contiguous and cover exactly [0, plen): the
\* first starts at 0, each ends where the next starts, the last ends at plen.
Contiguous(blocks, plen) ==
    /\ 0 \in DOMAIN blocks
    /\ \A o \in DOMAIN blocks :
         LET later == { p \in DOMAIN blocks : p > o }
             next_offset == IF later = {} THEN plen ELSE Min(later)
         IN o + ByteLen(blocks[o]) = next_offset

\* C5: verify_piece is called only on blocks that, sorted by offset, are
\* contiguous and cover exactly [0, piece_length).
C5_VerifyOnlyContiguous ==
    last_verify.called => Contiguous(last_verify.blocks, last_verify.piece_length)

\* C6: every write to the output file is of bytes whose SHA-1 is
\* piece_hashes[index], at byte offset index times the torrent's declared
\* piece length.
C6_WriteVerifiedAtPieceOffset ==
    \A w \in file_writes :
        /\ w.index \in DOMAIN piece_hashes
        /\ Sha1(w.data) = piece_hashes[w.index]
        /\ w.offset = w.index * torrent_piece_length

\* C7: a HAVE whose index is >= total_pieces changes no session state and
\* sends nothing, and available_pieces holds only indices below total_pieces.
C7_InvalidHaveIgnored ==
    /\ [](available_pieces \subseteq 0..(total_pieces - 1))
    /\ [][ ( /\ Handles(MESSAGE_HAVE)
             /\ Len(last_frame'.payload) = 4
             /\ UnpackU32(last_frame'.payload) >= total_pieces )
           => UNCHANGED sessionState ]_vars

\* A HAVE for index total_pieces was the first message, and nothing happened.
C7_Witness ==
    /\ last_frame = Message(MESSAGE_HAVE, PackU32(total_pieces))
    /\ frames_read = 1
    /\ pc = "loop"
    /\ available_pieces = {}
    /\ ~am_interested
    /\ sent = <<>>

\* The indices below total whose bit is set in the payload: bit i is in byte
\* i div 8, at position i mod 8 counted from the most significant bit.
SetBits(payload, total) ==
    { i \in 0..(total - 1) :
        /\ i \div 8 < Len(payload)
        /\ (payload[i \div 8 + 1] \div (2 ^ (7 - (i % 8)))) % 2 = 1 }

\* C8: process_bitfield adds to available_pieces exactly the indices below
\* total_pieces whose bit is set in the payload, MSB first, and nothing else.
C8_BitfieldDecoding ==
    [][ available_pieces' = available_pieces \cup SetBits(bitfield_payload', total_pieces) ]_vars

\* total_pieces = 10 and payload A0 00 give {0, 2}.
C8_Witness ==
    /\ total_pieces = 10
    /\ bitfield_payload = <<160, 0>>
    /\ available_pieces = {0, 2}

\* C9: in a session whose sends did not raise, a non-empty available_pieces
\* means am_interested is true and an interested message was sent; and a
\* bitfield with no valid set bit, received while available_pieces is empty,
\* sends nothing and leaves am_interested false.
C9_InterestFollowsAvailability ==
    /\ []( (end_reason # "send_error" /\ available_pieces # {})
             => (am_interested /\ Sent("interested") # {}) )
    /\ [][ ( /\ Handles(MESSAGE_BITFIELD)
             /\ available_pieces = {}
             /\ SetBits(last_frame'.payload, total_pieces) = {} )
           => (sent' = sent /\ ~am_interested' /\ available_pieces' = {}) ]_vars

\* A bitfield made available_pieces non-empty and interested went out.
C9_Witness ==
    /\ last_frame.kind = "message" /\ last_frame.id = MESSAGE_BITFIELD
    /\ frames_read = 1
    /\ available_pieces # {}
    /\ am_interested
    /\ sent = <<InterestedMsg>>

\* C10: the message loop runs, and a frame is read, only after a 68-byte
\* handshake with our info-hash was received; after a short handshake or one
\* with another info-hash the socket is closed, the handshake has failed and
\* no frame is ever read.
C10_HandshakeBeforeFrames ==
    /\ (pc \in {"loop", "done"} \/ frames_read > 0 \/ last_frame # NoFrame)
         => ( /\ received_handshake.len = HANDSHAKE_LEN
              /\ received_handshake.info_hash = info_hash )
    /\ ( /\ received_handshake # NoHandshake
         /\ \/ received_handshake.len < HANDSHAKE_LEN
            \/ received_handshake.info_hash # info_hash )
         => (pc = "failed" /\ sock = "closed" /\ frames_read = 0 /\ sent = <<>>)

\* A full handshake with another torrent's info-hash was received.
C10_Witness ==
    /\ received_handshake.len = HANDSHAKE_LEN
    /\ received_handshake.info_hash # info_hash
    /\ pc = "failed"
    /\ sock = "closed"

\* The step handled a message the spec calls malformed or unknown: an id the
\* loop has no branch for, a HAVE whose payload is not 4 bytes, a PIECE whose
\* payload is shorter than 8 bytes.
HandlesMalformed ==
    /\ last_frame'.kind = "message"
    /\ \/ last_frame'.id > MESSAGE_CANCEL
       \/ last_frame'.id = MESSAGE_HAVE /\ Len(last_frame'.payload) # 4
       \/ last_frame'.id = MESSAGE_PIECE /\ Len(last_frame'.payload.hdr) < 8

\* C11: a message with an unknown id, a HAVE whose payload is not 4 bytes and
\* a PIECE whose payload is shorter than 8 bytes change no session state, send
\* nothing and leave the loop running (steps in which a sendall raised apart).
C11_MalformedSkipped ==
    [][ (frames_read' = frames_read + 1 /\ HandlesMalformed /\ end_reason' # "send_error")
          => (UNCHANGED sessionState /\ pc' = "loop") ]_vars

\* The pieces whose record is marked complete: those that passed verify_piece.
VerifiedPieces == { i \in DOMAIN downloaded_pieces : downloaded_pieces[i].is_complete }

\* C12: the loop has ended on EOF, a timeout, a socket error or the target,
\* and when it ended on the target, at least the target number of pieces
\* were verified.
C12_LoopEndsOnVerifiedTarget ==
    /\ pc = "done" => end_reason \in {"eof", "timeout", "error", "send_error", "target"}
    /\ end_reason = "target" => Cardinality(VerifiedPieces) >= DEMO_PIECE_LIMIT

\* C13: a session starts (the handshake of its peer is about to be made) with
\* peer_choking true, am_interested false, no available pieces and no piece
\* records, whatever the sessions before it received.
C13_SessionStartsInInitialState ==
    pc = "handshake" =>
        /\ peer_choking
        /\ ~am_interested
        /\ available_pieces = {}
        /\ downloaded_pieces = <<>>

\* The pieces with a record that is not complete: those in progress.
InProgressPieces == { i \in DOMAIN downloaded_pieces : ~downloaded_pieces[i].is_complete }

\* C14: no index is both in progress and completed, and a piece that was
\* verified and completed is not in progress after any later step.
C14_CompletedNeverInProgress ==
    /\ [](InProgressPieces \cap VerifiedPieces = {})
    /\ [][ \A i \in VerifiedPieces : i \notin InProgressPieces' ]_vars

\* A connect response the code accepts: at least 16 bytes, action 0 and the
\* transaction id of the connect request.
ValidConnectResponse(data, tid) ==
    /\ Len(data) >= 16
    /\ SubSeq(data, 1, 4) = <<0, 0, 0, 0>>
    /\ SubSeq(data, 5, 8) = <<0, 0, 0, tid>>

SendsAnnounce ==
    /\ Len(udp_sent') = Len(udp_sent) + 1
    /\ udp_sent'[Len(udp_sent')].action = ANNOUNCE_ACTION

TrackerFailure ==
    \/ tracker_response.kind \in {"transport_error", "status_error", "timeout", "socket_error"}
    \/ tracker_response.kind = "ok" /\ ~bdecode(tracker_response.content).ok
    \/ /\ tracker_response.kind = "ok"
       /\ bdecode(tracker_response.content).ok
       /\ LET v == bdecode(tracker_response.content).val IN
          "dict" \notin DOMAIN v \/ KEY_FAILURE_REASON \in DOMAIN v.dict
    \/ /\ tracker_response.kind = "udp"
       /\ \/ Len(tracker_response.data) < 8
          \/ SubSeq(tracker_response.data, 1, 4) = <<0, 0, 0, ERROR_ACTION>>
          \/ SubSeq(tracker_response.data, 5, 8) # <<0, 0, 0, transaction_id>>
    \/ scheme \notin {"http", "https", "udp"}

\* C16: every failure of the tracker exchange ends get_peers_from_tracker
\* with an empty list: no exception leaves it and no peers are returned.
C16_TrackerFailureReturnsEmpty ==
    (tracker_pc = "done" /\ TrackerFailure) => tracker_result = Returned(<<>>)

\* The decimal digits of a byte.
ByteDigits(n) ==
    IF n < 10 THEN <<48 + n>>
    ELSE IF n < 100 THEN <<48 + (n \div 10), 48 + (n % 10)>>
    ELSE <<48 + (n \div 100), 48 + ((n \div 10) % 10), 48 + (n % 10)>>

\* The i-th endpoint (from 0) of compact peer data d.
Endpoint(d, i) ==
    [ip |-> ByteDigits(d[6 * i + 1]) \o <<46>> \o ByteDigits(d[6 * i + 2]) \o <<46>>
              \o ByteDigits(d[6 * i + 3]) \o <<46>> \o ByteDigits(d[6 * i + 4]),
     port |-> 256 * d[6 * i + 5] + d[6 * i + 6]]

Endpoints(d) == [i \in 1..(Len(d) \div 6) |-> Endpoint(d, i - 1)]

\* The body d5:peers<n>:<d>e of an HTTP tracker's answer.
HttpPeersBody(d) ==
    <<100, 53, 58, 112, 101, 101, 114, 115>> \o ByteDigits(Len(d)) \o <<58>> \o d \o <<101>>

\* An accepted UDP announce response: action 1 and our transaction id.
AnnounceAccepted ==
    /\ tracker_response.kind = "udp"
    /\ Len(udp_sent) = 2
    /\ Len(tracker_response.data) >= 20
    /\ SubSeq(tracker_response.data, 1, 4) = <<0, 0, 0, 1>>
    /\ SubSeq(tracker_response.data, 5, 8) = <<0, 0, 0, transaction_id>>

C18_CanonicalRoundTrip ==
    bencoded_bytes \in CanonicalInputs =>
        /\ bencode_pc = "decoded" => bdecoded.ok
        /\ bencode_pc = "encoded" => encoded = [kind |-> "bytes", bytes |-> bencoded_bytes]

\* d1:ali-3ee1:bdee has come back from the round trip.
C18_Witness ==
    /\ bencode_pc = "encoded"
    /\ bencoded_bytes = <<100, 49, 58, 97, 108, 105, 45, 51, 101, 101, 49, 58, 98, 100, 101, 101>>
    /\ bencoded_bytes \in CanonicalInputs
    /\ bdecoded.val.dict[<<97>>] = [list |-> << [int |-> -3] >>]
    /\ encoded.bytes = bencoded_bytes

\* The number written by decimal digits.
RECURSIVE Number(_)
Number(digits) ==
    IF digits = <<>> THEN 0
    ELSE 10 * Number(SubSeq(digits, 1, Len(digits) - 1)) + (digits[Len(digits)] - 48)

AllDigits(text) == \A k \in 1..Len(text) : text[k] \in 48..57

\* The input starts with no known prefix (i, l, d or a digit).
UnknownPrefix(B) == B = <<>> \/ B[1] \notin ({105, 108, 100} \cup (48..57))

\* An integer without its terminating e.
IntUnterminated(B) == B # <<>> /\ B[1] = 105 /\ \A k \in 1..Len(B) : B[k] # 101

\* An integer whose text up to the first e is not a number.
IntNotNumeric(B) ==
    /\ B # <<>>
    /\ B[1] = 105
    /\ \E k \in 2..Len(B) :
         /\ B[k] = 101
         /\ \A j \in 2..(k - 1) : B[j] # 101
         /\ LET text == SubSeq(B, 2, k - 1)
                digits == IF text # <<>> /\ text[1] = 45 THEN Tail(text) ELSE text
            IN digits = <<>> \/ ~AllDigits(digits)

\* A byte string that declares more bytes than the input has left.
StringOverrun(B) ==
    \E k \in 2..Len(B) :
        /\ B[k] = 58
        /\ AllDigits(SubSeq(B, 1, k - 1))
        /\ Number(SubSeq(B, 1, k - 1)) > Len(B) - k

Malformed(B) == UnknownPrefix(B) \/ IntUnterminated(B) \/ IntNotNumeric(B) \/ StringOverrun(B)

\* C19: on input where a numeric parse fails, a terminator is absent, the
\* prefix is unknown or a byte string declares more bytes than remain,
\* bdecode fails with an error and returns no value.
C19_MalformedInputFails ==
    (bencode_pc = "decoded" /\ Malformed(bencoded_bytes)) => ~bdecoded.ok

\* The torrent in the file, when the file is a bencoded dictionary.
IsTorrentDict ==
    /\ bdecode(torrent_data_bytes).ok
    /\ "dict" \in DOMAIN bdecode(torrent_data_bytes).val

TorrentDict == bdecode(torrent_data_bytes).val.dict

HasInfoDict ==
    /\ IsTorrentDict
    /\ KEY_INFO \in DOMAIN TorrentDict
    /\ "dict" \in DOMAIN TorrentDict[KEY_INFO]

\* A key the code reads without a default is absent.
LacksRequiredKey ==
    /\ IsTorrentDict
    /\ \/ KEY_ANNOUNCE \notin DOMAIN TorrentDict
       \/ KEY_INFO \notin DOMAIN TorrentDict
       \/ /\ HasInfoDict
          /\ \/ KEY_PIECES \notin DOMAIN TorrentDict[KEY_INFO].dict
             \/ {KEY_LENGTH, KEY_FILES} \cap DOMAIN TorrentDict[KEY_INFO].dict = {}

\* 'pieces' is a byte string whose length is no multiple of 20.
PiecesNotDivisible ==
    /\ HasInfoDict
    /\ KEY_PIECES \in DOMAIN TorrentDict[KEY_INFO].dict
    /\ "bytes" \in DOMAIN TorrentDict[KEY_INFO].dict[KEY_PIECES]
    /\ Len(TorrentDict[KEY_INFO].dict[KEY_PIECES].bytes) % 20 # 0

\* C20: a torrent whose 'pieces' has a length not divisible by 20, or that
\* lacks a required key, fails with an error: none yields a list of piece
\* hashes.
C20_MalformedTorrentFails ==
    (LacksRequiredKey \/ PiecesNotDivisible) =>
        /\ extracted_hashes.kind # "list"
        /\ parser_pc # "hashes"

\* The loop body called request_piece: on unchoke when interested, after a
\* piece message when unchoked and interested.
SchedulerRan ==
    /\ frames_read' = frames_read + 1
    /\ end_reason' # "send_error"
    /\ \/ Handles(MESSAGE_UNCHOKE) /\ am_interested
       \/ Handles(MESSAGE_PIECE) /\ ~peer_choking /\ am_interested

\* The available pieces not completed once the handler is through, and the
\* offsets of piece i neither stored nor requested then.
Wanted == { i \in available_pieces' :
              i \notin DOMAIN downloaded_pieces' \/ ~downloaded_pieces'[i].is_complete }

FreeOffsets(i) ==
    IF i \notin DOMAIN downloaded_pieces' THEN BlockOffsets(piece_length)
    ELSE { o \in BlockOffsets(downloaded_pieces'[i].piece_length) :
             /\ o \notin DOMAIN downloaded_pieces'[i].blocks
             /\ o \notin downloaded_pieces'[i].requested_blocks }

\* C21: each run of the block scheduler targets the first available piece
\* that is not completed: a request it sends is for that piece, and it
\* sends none only when that piece has no offset left to ask for.  A piece
\* in progress, one of which blocks were requested before, is therefore
\* continued.
C21_SchedulerTargetsFirstIncomplete ==
    [][ (SchedulerRan /\ Wanted # {}) =>
           LET target == Min(Wanted) IN
           (\E k \in Sent("request") : sent[k].index = target) =>
               IF SendsRequest THEN sent'[Len(sent')].index = target
               ELSE FreeOffsets(target) = {} ]_vars

\* The requests sent and not answered: the requested offsets of all records.
Outstanding ==
    { q \in (DOMAIN downloaded_pieces) \X BlockOffsets(piece_length) :
        q[2] \in downloaded_pieces[q[1]].requested_blocks }

\* C22: at every point of a session at most one request is outstanding,
\* whatever the order of choke, unchoke, have, bitfield and piece messages.
C22_OneOutstandingRequest == Cardinality(Outstanding) <= 1

\* The request the step sent.
LastRequest == sent'[Len(sent')]

\* C23: every request for a piece asks for the lowest block offset below the
\* record's piece length that is neither stored nor requested, and marks it
\* requested; no (index, offset) is requested again while it is outstanding
\* or stored, and no record has an offset both stored and requested.
C23_RequestsLowestFreeOffset ==
    /\ [](\A i \in DOMAIN downloaded_pieces :
             DOMAIN downloaded_pieces[i].blocks \cap downloaded_pieces[i].requested_blocks = {})
    /\ [][ SendsRequest =>
             LET i == LastRequest.index
                 o == LastRequest.begin
                 rec == downloaded_pieces'[i]
             IN /\ o \in BlockOffsets(rec.piece_length)
                /\ o < rec.piece_length
                /\ o \in rec.requested_blocks
                /\ o \notin DOMAIN rec.blocks
                /\ \A lower \in BlockOffsets(rec.piece_length) :
                      lower < o => lower \in (DOMAIN rec.blocks) \cup rec.requested_blocks
                /\ <<i, o>> \notin Outstanding ]_vars

\* Two requests were sent; one is answered and its block stored, the other
\* is outstanding.
C23_Witness ==
    /\ Cardinality(Sent("request")) = 2
    /\ \E i \in DOMAIN downloaded_pieces, j \in DOMAIN downloaded_pieces :
         /\ i # j
         /\ DOMAIN downloaded_pieces[i].blocks = {0}
         /\ downloaded_pieces[i].requested_blocks = {}
         /\ downloaded_pieces[j].requested_blocks = {0}
         /\ \E k \in Sent("request") : sent[k].index = i /\ sent[k].begin = 0

\* The torrent's actual length of piece i: L = min(piece length, total
\* length - i * piece length), for a torrent of total_pieces whole pieces.
TorrentLength == total_pieces * torrent_piece_length
ActualLength(i) == Min({torrent_piece_length, TorrentLength - i * torrent_piece_length})

\* Every block of piece i below L was requested, and the peer's blocks, the
\* right bytes, are what the record holds.
AllOfPieceReceived(i) ==
    /\ DOMAIN downloaded_pieces[i].blocks = BlockOffsets(ActualLength(i))
    /\ \A o \in BlockOffsets(ActualLength(i)) :
         /\ \E k \in Sent("request") : sent[k].index = i /\ sent[k].begin = o
         /\ downloaded_pieces[i].blocks[o] = PieceBlock(i, o, torrent_piece_length)

\* C24: a request for (index, offset) carries length min(16384, L - offset)
\* with offset below L, the torrent's actual length of the piece; the
\* completeness check is bounded by L as well, so that a piece whose blocks
\* below L were all requested and received is completed.
C24_RequestsBoundedByActualLength ==
    /\ [][ (SendsRequest /\ LastRequest.index < total_pieces) =>
             /\ LastRequest.begin < ActualLength(LastRequest.index)
             /\ LastRequest.length =
                  Min({block_size, ActualLength(LastRequest.index) - LastRequest.begin}) ]_vars
    /\ [](\A i \in DOMAIN downloaded_pieces :
             (i < total_pieces /\ AllOfPieceReceived(i)) => downloaded_pieces[i].is_complete)

\* Requests of available, incomplete pieces that a choke left unanswered:
\* the peer is choking, and requests go out only while it is not.
Abandoned ==
    { q \in Outstanding : /\ peer_choking
                          /\ q[1] \in available_pieces
                          /\ ~downloaded_pieces[q[1]].is_complete }

\* The lowest offset of piece i that is not stored.
LowestMissing(i) ==
    Min({ o \in BlockOffsets(piece_length) :
            i \notin DOMAIN downloaded_pieces \/ o \notin DOMAIN downloaded_pieces[i].blocks })

\* C25: a choke sets peer_choking, and the requests in flight count as
\* abandoned: at the unchoke that follows, the offsets requested and never
\* answered can be requested again, so that the scheduler asks for the
\* lowest missing offset of the first piece not completed.
C25_ChokeAbandonsRequests ==
    [][ /\ (Handles(MESSAGE_CHOKE) /\ frames_read' = frames_read + 1) => peer_choking'
        /\ (SchedulerRan /\ Handles(MESSAGE_UNCHOKE) /\ Abandoned # {}) =>
              /\ SendsRequest
              /\ LastRequest.index = Min(Wanted)
              /\ LastRequest.begin = LowestMissing(Min(Wanted)) ]_vars

\* The step handled a PIECE message of at least 8 bytes whose index had no
\* download record.
HandlesUnscheduledPiece ==
    /\ Handles(MESSAGE_PIECE)
    /\ frames_read' = frames_read + 1
    /\ Len(last_frame'.payload.hdr) >= 8
    /\ UnpackU32(SubSeq(last_frame'.payload.hdr, 1, 4)) \notin DOMAIN downloaded_pieces

UnscheduledIndex == UnpackU32(SubSeq(last_frame'.payload.hdr, 1, 4))

\* C26: a PIECE is accepted only for an index that has a download record: a
\* PIECE for an index without one stores no block, and, when the scheduler
\* does not run after it (the peer is choking or the client is not
\* interested), creates no record and changes no session state.
C26_UnscheduledPieceIgnored ==
    [][ HandlesUnscheduledPiece =>
          /\ UnscheduledIndex \in DOMAIN downloaded_pieces' =>
                downloaded_pieces'[UnscheduledIndex].blocks = << >>
          /\ (peer_choking \/ ~am_interested) => UNCHANGED sessionState ]_vars

\* C27: every piece whose record is marked complete has been written to the
\* output file: a verified piece whose write failed is not left marked
\* complete.
C27_CompleteImpliesWritten ==
    \A i \in DOMAIN downloaded_pieces :
        (i < total_pieces /\ downloaded_pieces[i].is_complete) =>
            \E w \in file_writes : w.index = i

\* The step put an INTERESTED message on the wire.
SendsInterested == Len(sent') = Len(sent) + 1 /\ sent'[Len(sent')].kind = "interested"

\* C28: within one session am_interested never goes from true back to false,
\* and the interested message is sent at most once, in exactly the step that
\* takes am_interested from false to true, whatever have and bitfield
\* messages arrive.
C28_InterestedSentOnce ==
    /\ [][ /\ am_interested => am_interested'
           /\ SendsInterested <=> (~am_interested /\ am_interested') ]_vars
    /\ [](Cardinality(Sent("interested")) <= 1)

\* A valid HAVE arrived while the client was already interested: both pieces
\* are available and the one interested message is all that was sent.
C28_Witness ==
    /\ frames_read >= 2
    /\ last_frame.kind = "message" /\ last_frame.id = MESSAGE_HAVE
    /\ ValidHave(last_frame.payload)
    /\ Cardinality(available_pieces) = 2
    /\ am_interested
    /\ sent = <<InterestedMsg>>

====
